---- MODULE Spec2Model ----
(***************************************************************************)
(* A model of glowl::Mesh (include/glowl/Mesh.hpp): the two constructors,  *)
(* bindVertexArray, draw, the sub-data updates and the accessors, over a   *)
(* model of the part of the graphics-API state they touch (vertex-array    *)
(* binding, array-buffer binding, per-vertex-array element-array binding,  *)
(* attribute slots, error flag, buffer stores).                            *)
(***************************************************************************)
EXTENDS Integers, Sequences, FiniteSets, TLC

VARIABLES
    pc,       \* "start" | "constructed" | "crashed"
    gl,       \* the graphics context (bindings, slots, error flag, stores, calls)
    gl0,      \* the graphics context as the caller left it before construction
    mesh,     \* the Mesh object's fields, NoMesh before construction
    args,     \* the constructor's arguments
    ub,       \* what a read past the end of m_vbos yields in this run
    boStyle,  \* how BufferObject uploads: "dsa" or "bind" (bind, upload, unbind)
    cerr,     \* lines written to std::cerr
    lastOp,   \* the operation that ran last, with its arguments and result
    pre,      \* gl as it was before the operation that ran last
    nops      \* operations run since construction

vars == <<pc, gl, gl0, mesh, args, ub, boStyle, cerr, lastOp, pre, nops>>

-----------------------------------------------------------------------------
(* Bounds *)

MaxVbos == 2
MaxAttribs == 2
MaxOps == 2

-----------------------------------------------------------------------------
(* Small helpers *)

NoMesh == [none |-> TRUE]

SeqsUpTo(S, n) == UNION {[1..k -> S] : k \in 1..n}

\* n bytes all equal to tag: the bytes behind a data pointer / in a container
Bytes(n, tag) == [k \in 1..n |-> tag]

\* n bytes that depend on their position: the payload of a sub-data update
Payload(n) == [k \in 1..n |-> 50 + (k % 3)]

-----------------------------------------------------------------------------
(* The graphics API, as far as Mesh uses it *)

Call(fn, target, arg) == [fn |-> fn, target |-> target, arg |-> arg]

Log(g, c) == [g EXCEPT !.calls = Append(@, c)]

\* the error flag keeps the first error recorded until it is read
SetError(g, e) == IF g.err = "GL_NO_ERROR" THEN [g EXCEPT !.err = e] ELSE g

glBindVertexArray(g, h) ==
    Log([g EXCEPT !.vao = h], Call("glBindVertexArray", "", h))

\* the element-array binding belongs to the vertex-array that is bound
glBindBuffer(g, target, h) ==
    LET g1 == Log(g, Call("glBindBuffer", target, h))
    IN  IF target = "GL_ARRAY_BUFFER" THEN [g1 EXCEPT !.arrayBuffer = h]
        ELSE IF target = "GL_ELEMENT_ARRAY_BUFFER" THEN [g1 EXCEPT !.ebo[g.vao] = h]
        ELSE SetError(g1, "GL_INVALID_ENUM")

ElementArrayBinding(g) == g.ebo[g.vao]

glEnableVertexAttribArray(g, idx) ==
    Log([g EXCEPT !.slots[g.vao][idx].enabled = TRUE],
        Call("glEnableVertexAttribArray", "", idx))

\* the slot captures the buffer bound to GL_ARRAY_BUFFER at the time of the call
glVertexAttribPointer(g, idx, attribute, stride) ==
    Log([g EXCEPT !.slots[g.vao][idx].buffer = g.arrayBuffer,
                  !.slots[g.vao][idx].size = attribute.size,
                  !.slots[g.vao][idx].offset = attribute.offset,
                  !.slots[g.vao][idx].stride = stride],
        Call("glVertexAttribPointer", "", idx))

glDrawElementsInstanced(g, mode, count, type, instance_cnt) ==
    LET g1 == Log(g, Call("glDrawElementsInstanced", mode, count))
    IN  IF type \notin {"GL_UNSIGNED_INT", "GL_UNSIGNED_SHORT", "GL_UNSIGNED_BYTE"}
        THEN SetError(g1, "GL_INVALID_ENUM")
        ELSE IF instance_cnt < 0 THEN SetError(g1, "GL_INVALID_VALUE")
        ELSE g1

\* glGetError returns the flag and clears it
glGetError(g) == Log([g EXCEPT !.err = "GL_NO_ERROR"], Call("glGetError", "", 0))

-----------------------------------------------------------------------------
(* Objects the caller made earlier on the same context *)

ForeignVaos == {1}
ForeignBufs == {1}

VaoNames == 0..(Cardinality(ForeignVaos) + 1)
BufNames == 1..(Cardinality(ForeignBufs) + MaxVbos + 1)
SlotIds == 0..(MaxAttribs - 1)

\* an upload with a usage the API does not know records GL_INVALID_ENUM and
\* stores nothing
ValidUsages == {"GL_STATIC_DRAW", "GL_DYNAMIC_DRAW", "GL_STREAM_DRAW"}

glBufferData(g, target, h, bytes, usage) ==
    LET g1 == Log(g, Call("glBufferData", target, h))
    IN  IF usage \in ValidUsages
        THEN [g1 EXCEPT !.store[h] = [alive |-> TRUE, bytes |-> bytes]]
        ELSE SetError([g1 EXCEPT !.store[h] = [alive |-> TRUE, bytes |-> <<>>]],
                      "GL_INVALID_ENUM")

\* glGenVertexArrays / glGenBuffers hand out a name that is not in use
glGenVertexArrays(g) ==
    LET h == CHOOSE n \in VaoNames \ {0} :
                 /\ n \notin g.vaos
                 /\ \A m \in VaoNames \ {0} : m \notin g.vaos => n <= m
    IN  [gl |-> Log([g EXCEPT !.vaos = @ \cup {h}], Call("glGenVertexArrays", "", h)),
         handle |-> h]

UnusedBuffer(g) ==
    CHOOSE n \in BufNames :
        /\ ~g.store[n].alive
        /\ \A m \in BufNames : ~g.store[m].alive => n <= m

-----------------------------------------------------------------------------
(* BufferObject (BufferObject.hpp): one buffer handle of a target kind, its *)
(* byte size, bind and sub-range update                                     *)

\* BufferObject(target, data, byte_size, usage): allocate and upload.
\* style "bind" uploads through the target binding and resets it to zero,
\* style "dsa" uploads by name and touches no binding.
BufferObject_ctor(g, style, target, bytes, usage) ==
    LET h == UnusedBuffer(g)
        up(x) == glBufferData(x, target, h, bytes, usage)
        g1 == IF style = "bind"
              THEN glBindBuffer(up(glBindBuffer(g, target, h)), target, 0)
              ELSE up(g)
    IN  [gl |-> g1,
         bo |-> [m_target |-> target, m_handle |-> h,
                 m_byte_size |-> Len(bytes), m_usage |-> usage]]

BufferObject_bind(g, bo) == glBindBuffer(g, bo.m_target, bo.m_handle)

BufferObject_getByteSize(bo) == bo.m_byte_size

\* bytes [byte_offset, byte_offset + Len(data)) of the store replaced by data
Splice(old, data, byte_offset) ==
    [k \in 1..Len(old) |->
        IF k > byte_offset /\ k <= byte_offset + Len(data)
        THEN data[k - byte_offset] ELSE old[k]]

\* bufferSubData(data, byte_size, byte_offset): a range that does not fit the
\* buffer changes no byte
BufferObject_bufferSubData(g, style, bo, data, byte_offset) ==
    LET h == bo.m_handle
        fits == byte_offset >= 0 /\ byte_offset + Len(data) <= bo.m_byte_size
        up(x) == Log([x EXCEPT !.store[h].bytes = Splice(@, data, byte_offset)],
                     Call("glBufferSubData", bo.m_target, h))
    IN  IF ~fits THEN g
        ELSE IF style = "bind"
        THEN glBindBuffer(up(glBindBuffer(g, bo.m_target, h)), bo.m_target, 0)
        ELSE up(g)

-----------------------------------------------------------------------------
(* Mesh: construction *)

\* static_cast<GLuint>: reduction modulo 2^32, which keeps every value of
\* 0..2^31-1, the only integers the model's byte sizes take
GLuint(x) == IF x >= 0 THEN x ELSE x + 2147483647 + 2147483647 + 2

\* IndicesCount with the 16-bit case dividing by 4
IndicesCount_WrongWidth(index_type, byte_size) ==
    CASE index_type = "GL_UNSIGNED_INT"   -> GLuint(byte_size \div 4)
      [] index_type = "GL_UNSIGNED_SHORT" -> GLuint(byte_size \div 4)
      [] index_type = "GL_UNSIGNED_BYTE"  -> GLuint(byte_size \div 1)
      [] OTHER -> 0

\* the switch on m_index_type; m_indices_cnt keeps its initial 0 when no case matches
IndicesCount(index_type, byte_size) ==
    CASE index_type = "GL_UNSIGNED_INT"   -> GLuint(byte_size \div 4)
      [] index_type = "GL_UNSIGNED_SHORT" -> GLuint(byte_size \div 2)
      [] index_type = "GL_UNSIGNED_BYTE"  -> GLuint(byte_size \div 1)
      [] OTHER -> 0

\* the stride of attribute attrib_idx (0-based)
AttributeStride(vertex_descriptor, attrib_idx) ==
    IF Len(vertex_descriptor.strides) = 1
    THEN Head(vertex_descriptor.strides)
    ELSE vertex_descriptor.strides[attrib_idx + 1]

\* the position of m_vbos that attribute attrib_idx is bound from
VboIndexFor(vertex_descriptor, attrib_idx) == attrib_idx

\* m_vbos[i]->bind(); a position past the end of m_vbos is read as whatever
\* the run finds there (u): the process dies, or bind() runs on a stray object
BindVbo(st, vbos, i, u) ==
    LET st1 == [st EXCEPT !.accessed = @ \cup {i}]
    IN  IF i < Len(vbos)
        THEN [st1 EXCEPT !.gl = BufferObject_bind(st.gl, vbos[i + 1])]
        ELSE IF u.kind = "crash"
        THEN [st1 EXCEPT !.crashed = TRUE]
        ELSE [st1 EXCEPT !.gl = glBindBuffer(st.gl, u.target, u.handle)]

\* the attribute loop of both constructors
RECURSIVE AttribLoop(_, _, _, _, _)
AttribLoop(st, vbos, vertex_descriptor, attrib_idx, u) ==
    IF st.crashed \/ attrib_idx >= Len(vertex_descriptor.attributes) THEN st
    ELSE
        LET attribute == vertex_descriptor.attributes[attrib_idx + 1]
            attribute_stride == AttributeStride(vertex_descriptor, attrib_idx)
            st1 == BindVbo(st, vbos, VboIndexFor(vertex_descriptor, attrib_idx), u)
            g2 == glEnableVertexAttribArray(st1.gl, attrib_idx)
            g3 == glVertexAttribPointer(g2, attrib_idx, attribute, attribute_stride)
        IN  IF st1.crashed THEN st1
            ELSE AttribLoop([st1 EXCEPT !.gl = g3], vbos, vertex_descriptor,
                            attrib_idx + 1, u)

\* the vertex buffers, created in input order
RECURSIVE MakeVbos(_, _, _, _, _)
MakeVbos(acc, style, vertex_data, byte_sizes, usage) ==
    LET i == Len(acc.vbos) + 1
    IN  IF i > Len(vertex_data) THEN acc
        ELSE LET r == BufferObject_ctor(acc.gl, style, "GL_ARRAY_BUFFER",
                                        Bytes(byte_sizes[i], vertex_data[i]), usage)
             IN  MakeVbos([gl |-> r.gl, vbos |-> Append(acc.vbos, r.bo)],
                          style, vertex_data, byte_sizes, usage)

\* CheckError with the test inverted
CheckError_Inverted(g, out) ==
    LET err == g.err
    IN  [gl |-> glGetError(g),
         cerr |-> IF err = "GL_NO_ERROR"
                  THEN Append(out, [text |-> "Error - Mesh - Construction: ", code |-> err])
                  ELSE out]

\* the error check that ends both constructors
CheckError(g, out) ==
    LET err == g.err
    IN  [gl |-> glGetError(g),
         cerr |-> IF err # "GL_NO_ERROR"
                  THEN Append(out, [text |-> "Error - Mesh - Construction: ", code |-> err])
                  ELSE out]

\* what a constructor leaves: the context, the object, std::cerr, whether the
\* process died, and the positions of m_vbos it read
CtorResult(st, e, fields) ==
    IF st.crashed
    THEN [gl |-> st.gl, mesh |-> NoMesh, cerr |-> <<>>, crashed |-> TRUE,
          accessed |-> st.accessed]
    ELSE [gl |-> e.gl, mesh |-> fields, cerr |-> e.cerr, crashed |-> FALSE,
          accessed |-> st.accessed]

\* the unbinding that follows the attribute loop in the pointer form
UnbindA(g) ==
    glBindBuffer(glBindBuffer(glBindVertexArray(g, 0), "GL_ARRAY_BUFFER", 0),
                 "GL_ELEMENT_ARRAY_BUFFER", 0)

\* Mesh(vertex_data, vertex_data_byte_sizes, index_data, index_data_byte_size, ...)
Mesh_A(vertex_data, vertex_data_byte_sizes, index_data, index_data_byte_size, vertex_descriptor, indices_type, usage, primitive_type, g, style, u) ==
    LET ibo == BufferObject_ctor(g, style, "GL_ELEMENT_ARRAY_BUFFER",
                                 Bytes(index_data_byte_size, index_data), usage)
        v == MakeVbos([gl |-> ibo.gl, vbos |-> <<>>], style, vertex_data,
                      vertex_data_byte_sizes, usage)
        va == glGenVertexArrays(v.gl)
        g1 == glBindVertexArray(va.gl, va.handle)
        g2 == BufferObject_bind(g1, ibo.bo)
        st == AttribLoop([gl |-> g2, crashed |-> FALSE, accessed |-> {}],
                         v.vbos, vertex_descriptor, 0, u)
        g3 == UnbindA(st.gl)
        e == CheckError(g3, <<>>)
    IN  CtorResult(st, e,
            [m_vbos |-> v.vbos, m_ibo |-> ibo.bo, m_va_handle |-> va.handle,
             m_vertex_descriptor |-> vertex_descriptor,
             m_indices_cnt |-> IndicesCount(indices_type, index_data_byte_size),
             m_index_type |-> indices_type, m_usage |-> usage,
             m_primitive_type |-> primitive_type])

\* the byte size of a container: size() * sizeof(value_type)
ContainerBytes(c) == c.len * c.esize

\* the unbinding that follows the attribute loop in the container form
UnbindB(g) == glBindBuffer(glBindVertexArray(g, 0), "GL_ARRAY_BUFFER", 0)

\* Mesh(vertex_data, index_data, vertex_descriptor, ...) over containers
Mesh_B(vertex_data, index_data, vertex_descriptor, indices_type, usage, primitive_type, g, style, u) ==
    LET ibo == BufferObject_ctor(g, style, "GL_ELEMENT_ARRAY_BUFFER",
                                 Bytes(ContainerBytes(index_data), index_data.tag), usage)
        v == MakeVbos([gl |-> ibo.gl, vbos |-> <<>>], style,
                      [i \in 1..Len(vertex_data) |-> vertex_data[i].tag],
                      [i \in 1..Len(vertex_data) |-> ContainerBytes(vertex_data[i])],
                      usage)
        va == glGenVertexArrays(v.gl)
        g1 == glBindVertexArray(va.gl, va.handle)
        g2 == BufferObject_bind(g1, ibo.bo)
        st == AttribLoop([gl |-> g2, crashed |-> FALSE, accessed |-> {}],
                         v.vbos, vertex_descriptor, 0, u)
        g3 == UnbindB(st.gl)
        vi_size == GLuint(ContainerBytes(index_data))
        e == CheckError(g3, <<>>)
    IN  CtorResult(st, e,
            [m_vbos |-> v.vbos, m_ibo |-> ibo.bo, m_va_handle |-> va.handle,
             m_vertex_descriptor |-> vertex_descriptor,
             m_indices_cnt |-> IndicesCount(indices_type, vi_size),
             m_index_type |-> indices_type, m_usage |-> usage,
             m_primitive_type |-> primitive_type])

-----------------------------------------------------------------------------
(* Mesh: drawing, partial updates, accessors *)

Mesh_bindVertexArray(m, g) ==
    [mesh |-> m, gl |-> glBindVertexArray(g, m.m_va_handle)]

\* draw that leaves the vertex-array bound
Mesh_draw_NoUnbind(m, g, instance_cnt) ==
    LET g1 == glBindVertexArray(g, m.m_va_handle)
    IN  [mesh |-> m,
         gl |-> glDrawElementsInstanced(g1, m.m_primitive_type, m.m_indices_cnt,
                                        m.m_index_type, instance_cnt)]

Mesh_draw(m, g, instance_cnt) ==
    LET g1 == glBindVertexArray(g, m.m_va_handle)
        g2 == glDrawElementsInstanced(g1, m.m_primitive_type, m.m_indices_cnt,
                                      m.m_index_type, instance_cnt)
    IN  [mesh |-> m, gl |-> glBindVertexArray(g2, 0)]

\* bufferVertexSubData that clamps an index past the end to the last buffer
Mesh_bufferVertexSubData_Clamped(m, g, style, idx, data, byte_offset) ==
    LET i == IF idx < Len(m.m_vbos) THEN idx + 1 ELSE Len(m.m_vbos)
    IN  [mesh |-> m,
         gl |-> BufferObject_bufferSubData(g, style, m.m_vbos[i], data, byte_offset)]

\* bufferVertexSubData that drops the byte offset
Mesh_bufferVertexSubData_NoOffset(m, g, style, idx, data, byte_offset) ==
    IF idx < Len(m.m_vbos)
    THEN [mesh |-> m,
          gl |-> BufferObject_bufferSubData(g, style, m.m_vbos[idx + 1], data, 0)]
    ELSE [mesh |-> m, gl |-> g]

\* bufferVertexSubData(idx, data, byte_size, byte_offset)
Mesh_bufferVertexSubData(m, g, style, idx, data, byte_offset) ==
    IF idx < Len(m.m_vbos)
    THEN [mesh |-> m,
          gl |-> BufferObject_bufferSubData(g, style, m.m_vbos[idx + 1], data, byte_offset)]
    ELSE [mesh |-> m, gl |-> g]

\* bufferVertexSubData(vbo_idx, vertices, byte_offset) over a container
Mesh_bufferVertexSubDataC(m, g, style, vbo_idx, vertices, byte_offset) ==
    IF vbo_idx < Len(m.m_vbos)
    THEN [mesh |-> m,
          gl |-> BufferObject_bufferSubData(g, style, m.m_vbos[vbo_idx + 1],
                                            Payload(ContainerBytes(vertices)), byte_offset)]
    ELSE [mesh |-> m, gl |-> g]

\* bufferIndexSubData that recomputes m_indices_cnt from the bytes it was given
Mesh_bufferIndexSubData_Recount(m, g, style, data, byte_offset) ==
    [mesh |-> [m EXCEPT !.m_indices_cnt = IndicesCount(m.m_index_type, Len(data))],
     gl |-> BufferObject_bufferSubData(g, style, m.m_ibo, data, byte_offset)]

\* bufferIndexSubData(data, byte_size, byte_offset)
Mesh_bufferIndexSubData(m, g, style, data, byte_offset) ==
    [mesh |-> m, gl |-> BufferObject_bufferSubData(g, style, m.m_ibo, data, byte_offset)]

\* bufferIndexSubData(indices, byte_offset) over a container
Mesh_bufferIndexSubDataC(m, g, style, indices, byte_offset) ==
    [mesh |-> m,
     gl |-> BufferObject_bufferSubData(g, style, m.m_ibo,
                                       Payload(ContainerBytes(indices)), byte_offset)]

getVertexLayout(m) == m.m_vertex_descriptor
getIndicesCount(m) == m.m_indices_cnt
getIndexType(m) == m.m_index_type
getPrimitiveType(m) == m.m_primitive_type

\* getVertexBufferByteSize that always reads the first buffer
getVertexBufferByteSize_First(m, vbo_idx) ==
    IF vbo_idx < Len(m.m_vbos)
    THEN BufferObject_getByteSize(m.m_vbos[1])
    ELSE 0

getVertexBufferByteSize(m, vbo_idx) ==
    IF vbo_idx < Len(m.m_vbos)
    THEN BufferObject_getByteSize(m.m_vbos[vbo_idx + 1])
    ELSE 0

getIndexBufferByteSize(m) == BufferObject_getByteSize(m.m_ibo)

getVbo(m) == m.m_vbos
getIbo(m) == m.m_ibo

-----------------------------------------------------------------------------
(* Inputs *)

\* a layout of n attributes: one shared stride (interleaved) or one per attribute
Layout(n, interleaved) ==
    [attributes |-> [i \in 1..n |->
                        [size |-> IF i = 1 THEN 3 ELSE 2,
                         type |-> "GL_FLOAT",
                         normalized |-> FALSE,
                         offset |-> IF ~interleaved \/ i = 1 THEN 0 ELSE 12 + 8 * (i - 2)]],
     strides |-> IF interleaved
                 THEN <<12 + 8 * (n - 1)>>
                 ELSE [i \in 1..n |-> IF i = 1 THEN 12 ELSE 8]]

Layouts == {Layout(n, b) : n \in 1..MaxAttribs, b \in BOOLEAN}

IndexTypes == {"GL_UNSIGNED_INT", "GL_UNSIGNED_SHORT", "GL_UNSIGNED_BYTE", "GL_INT"}
Usages == {"GL_STATIC_DRAW", "GL_NONE"}

\* a data source: len elements of esize bytes (a raw pointer is len bytes)
Src(len, esize) == [len |-> len, esize |-> esize]

\* per-attribute strides come with one vertex buffer per attribute
Matched(a) ==
    Len(a.vertex_descriptor.strides) # 1
        => Len(a.vertex_data) >= Len(a.vertex_descriptor.attributes)

ArgsOf(form, vs, is, ds, ts, us, ps) ==
    {a \in [form : {form}, vertex_data : vs, index_data : is,
            vertex_descriptor : ds, index_type : ts,
            usage : us, primitive_type : ps] : Matched(a)}

\* every input of the pointer form: buffers of 4 or 80 bytes, 6 or 24 index bytes
AllArgsA ==
    ArgsOf("A", SeqsUpTo({Src(4, 1), Src(80, 1)}, MaxVbos),
           {Src(6, 1), Src(24, 1)}, Layouts, IndexTypes, Usages, {"GL_TRIANGLES"})

\* every input of the container form: the same byte sizes as element counts
AllArgsB ==
    ArgsOf("B", SeqsUpTo({Src(1, 4), Src(20, 4)}, MaxVbos),
           {Src(6, 1), Src(3, 2), Src(6, 4)}, Layouts, IndexTypes, Usages,
           {"GL_TRIANGLES"})

\* the inputs the operations are explored from: the interleaved quad in one
\* buffer, and two buffers with per-attribute strides
SomeVertexA == {<<Src(80, 1)>>, <<Src(4, 1), Src(80, 1)>>}
SomeVertexB == {<<Src(20, 4)>>, <<Src(1, 4), Src(20, 4)>>}
SomeLayouts == {Layout(2, TRUE), Layout(2, FALSE)}

SomeArgsA ==
    ArgsOf("A", SomeVertexA, {Src(24, 1)}, SomeLayouts, {"GL_UNSIGNED_INT"}, {"GL_STATIC_DRAW"}, {"GL_TRIANGLES"})
    \cup ArgsOf("A", SomeVertexA, {Src(6, 1)}, SomeLayouts, {"GL_UNSIGNED_INT", "GL_UNSIGNED_SHORT"}, {"GL_STATIC_DRAW"}, {"GL_LINES"})

SomeArgsB ==
    ArgsOf("B", SomeVertexB, {Src(6, 4)}, SomeLayouts, {"GL_UNSIGNED_INT"}, {"GL_STATIC_DRAW"}, {"GL_TRIANGLES"})
    \cup ArgsOf("B", SomeVertexB, {Src(3, 2)}, SomeLayouts, {"GL_UNSIGNED_INT", "GL_UNSIGNED_SHORT"}, {"GL_STATIC_DRAW"}, {"GL_LINES"})

\* the bytes behind vertex source i and behind the index source
VTag(i) == 10 + i
ITag == VTag(0)

\* what a read past the end of m_vbos may yield
UBOutcomes ==
    {[kind |-> "crash", target |-> "", handle |-> 0]}
    \cup {[kind |-> "bind", target |-> t, handle |-> h] :
            t \in {"GL_ARRAY_BUFFER", "GL_ELEMENT_ARRAY_BUFFER", "GL_NONE"},
            h \in {0} \cup ForeignBufs}

\* the outcomes the operations are explored after
SomeOutcomes ==
    {u \in UBOutcomes : u.kind = "crash" \/ (u.target = "GL_ARRAY_BUFFER" /\ u.handle # 0)}

NoUB == [kind |-> "none", target |-> "", handle |-> 0]

\* the context as a caller may leave it
Context(vao, buf, err) ==
    [vao |-> vao,
     arrayBuffer |-> buf,
     ebo |-> [v \in VaoNames |-> IF v \in {0} \cup ForeignVaos THEN buf ELSE 0],
     slots |-> [v \in VaoNames |-> [i \in SlotIds |->
                   [enabled |-> FALSE, buffer |-> 0, size |-> 0, offset |-> 0, stride |-> 0]]],
     vaos |-> ForeignVaos,
     store |-> [h \in BufNames |->
                   IF h \in ForeignBufs THEN [alive |-> TRUE, bytes |-> Bytes(2, 9)]
                   ELSE [alive |-> FALSE, bytes |-> <<>>]],
     err |-> err,
     calls |-> <<>>]

\* nothing bound, or a vertex-array and a buffer of the caller's left bound;
\* no error pending, or a stale one
AllContexts ==
    {Context(0, 0, e) : e \in {"GL_NO_ERROR", "GL_INVALID_OPERATION"}}
    \cup {Context(v, b, e) : v \in ForeignVaos, b \in ForeignBufs,
                             e \in {"GL_NO_ERROR", "GL_INVALID_OPERATION"}}

SomeContexts ==
    {Context(0, 0, "GL_NO_ERROR")}
    \cup {Context(v, b, "GL_INVALID_OPERATION") : v \in ForeignVaos, b \in ForeignBufs}

Quiet(g) == [g EXCEPT !.calls = <<>>]

Op(name, idx, size, offset, result) ==
    [name |-> name, idx |-> idx, size |-> size, offset |-> offset, result |-> result]

-----------------------------------------------------------------------------
(* State machine *)

InitWith(contexts) ==
    /\ pc = "start"
    /\ gl \in contexts
    /\ gl0 = gl
    /\ mesh = NoMesh
    /\ args = [form |-> "none"]
    /\ ub = NoUB
    /\ boStyle \in {"dsa", "bind"}
    /\ cerr = <<>>
    /\ lastOp = Op("none", 0, 0, 0, 0)
    /\ pre = [gl |-> gl, mesh |-> mesh]
    /\ nops = 0

Init == InitWith(SomeContexts)

InitAll == InitWith(AllContexts)

\* the constructor ran on arguments a with out-of-range outcome u and left r
Constructed(a, u, r) ==
    /\ pc' = IF r.crashed THEN "crashed" ELSE "constructed"
    /\ gl' = r.gl
    /\ mesh' = r.mesh
    /\ args' = a
    /\ ub' = IF \E i \in r.accessed : i >= Len(a.vertex_data) THEN u ELSE NoUB
    /\ cerr' = cerr \o r.cerr
    /\ lastOp' = Op("Mesh", 0, 0, 0, 0)
    /\ pre' = [gl |-> Quiet(gl), mesh |-> mesh]
    /\ UNCHANGED <<gl0, boStyle, nops>>

RunA(a, g, style, u) ==
    Mesh_A([i \in 1..Len(a.vertex_data) |-> VTag(i)],
           [i \in 1..Len(a.vertex_data) |-> a.vertex_data[i].len],
           ITag, a.index_data.len, a.vertex_descriptor, a.index_type, a.usage,
           a.primitive_type, g, style, u)

RunB(a, g, style, u) ==
    Mesh_B([i \in 1..Len(a.vertex_data) |-> [len |-> a.vertex_data[i].len, esize |-> a.vertex_data[i].esize, tag |-> VTag(i)]],
           [len |-> a.index_data.len, esize |-> a.index_data.esize, tag |-> ITag],
           a.vertex_descriptor, a.index_type, a.usage, a.primitive_type, g, style, u)

ConstructA(inputs, outcomes) ==
    /\ pc = "start"
    /\ \E a \in inputs, u \in outcomes : Constructed(a, u, RunA(a, gl, boStyle, u))

ConstructB(inputs, outcomes) ==
    /\ pc = "start"
    /\ \E a \in inputs, u \in outcomes : Constructed(a, u, RunB(a, gl, boStyle, u))

\* an operation named by op ran on the constructed Mesh and left r
Ran(op, r) ==
    /\ gl' = r.gl
    /\ mesh' = r.mesh
    /\ lastOp' = op
    /\ pre' = [gl |-> Quiet(gl), mesh |-> mesh]
    /\ nops' = nops + 1
    /\ UNCHANGED <<pc, gl0, args, ub, boStyle, cerr>>

Ready == pc = "constructed" /\ nops < MaxOps

VboIndexes == 0..MaxVbos

SubRanges == {[size |-> 20, offset |-> 20], [size |-> 2, offset |-> 1]}

SubContainers == {[c |-> Src(1, 2), offset |-> 2]}

BindVertexArray ==
    /\ Ready
    /\ Ran(Op("bindVertexArray", 0, 0, 0, 0), Mesh_bindVertexArray(mesh, Quiet(gl)))

Draw ==
    /\ Ready
    /\ \E n \in 1..2 : Ran(Op("draw", n, 0, 0, 0), Mesh_draw(mesh, Quiet(gl), n))

BufferVertexSubData ==
    /\ Ready
    /\ \E idx \in VboIndexes, r \in SubRanges :
          Ran(Op("bufferVertexSubData", idx, r.size, r.offset, 0),
              Mesh_bufferVertexSubData(mesh, Quiet(gl), boStyle, idx, Payload(r.size), r.offset))

BufferVertexSubDataC ==
    /\ Ready
    /\ \E idx \in VboIndexes, s \in SubContainers :
          Ran(Op("bufferVertexSubDataC", idx, ContainerBytes(s.c), s.offset, 0),
              Mesh_bufferVertexSubDataC(mesh, Quiet(gl), boStyle, idx, s.c, s.offset))

BufferIndexSubData ==
    /\ Ready
    /\ \E r \in SubRanges :
          Ran(Op("bufferIndexSubData", 0, r.size, r.offset, 0),
              Mesh_bufferIndexSubData(mesh, Quiet(gl), boStyle, Payload(r.size), r.offset))

BufferIndexSubDataC ==
    /\ Ready
    /\ \E s \in SubContainers :
          Ran(Op("bufferIndexSubDataC", 0, ContainerBytes(s.c), s.offset, 0),
              Mesh_bufferIndexSubDataC(mesh, Quiet(gl), boStyle, s.c, s.offset))

\* the accessors: pure reads, their result kept in lastOp
GetVertexBufferByteSize ==
    /\ Ready
    /\ \E i \in VboIndexes :
          Ran(Op("getVertexBufferByteSize", i, 0, 0, getVertexBufferByteSize(mesh, i)),
              [mesh |-> mesh, gl |-> Quiet(gl)])

GetIndexBufferByteSize ==
    /\ Ready
    /\ Ran(Op("getIndexBufferByteSize", 0, 0, 0, getIndexBufferByteSize(mesh)),
           [mesh |-> mesh, gl |-> Quiet(gl)])

GetIndicesCount ==
    /\ Ready
    /\ Ran(Op("getIndicesCount", 0, 0, 0, getIndicesCount(mesh)),
           [mesh |-> mesh, gl |-> Quiet(gl)])

\* getVbo()[i]->bind() and getIbo().bind(): the caller binds an owned buffer
GetVboBind ==
    /\ Ready
    /\ \E i \in 1..Len(getVbo(mesh)) :
          Ran(Op("getVbo.bind", i - 1, 0, 0, 0),
              [mesh |-> mesh, gl |-> BufferObject_bind(Quiet(gl), getVbo(mesh)[i])])

GetIboBind ==
    /\ Ready
    /\ Ran(Op("getIbo.bind", 0, 0, 0, 0),
           [mesh |-> mesh, gl |-> BufferObject_bind(Quiet(gl), getIbo(mesh))])

Use ==
    \/ BindVertexArray
    \/ Draw
    \/ BufferVertexSubData
    \/ BufferVertexSubDataC
    \/ BufferIndexSubData
    \/ BufferIndexSubDataC
    \/ GetVertexBufferByteSize
    \/ GetIndexBufferByteSize
    \/ GetIndicesCount
    \/ GetVboBind
    \/ GetIboBind

Next ==
    \/ ConstructA(SomeArgsA, SomeOutcomes)
    \/ ConstructB(SomeArgsB, SomeOutcomes)
    \/ Use

Spec == Init /\ [][Next]_vars

\* construction alone, over every input and every context
NextConstruct ==
    \/ ConstructA(AllArgsA, UBOutcomes)
    \/ ConstructB(AllArgsB, UBOutcomes)

SpecConstruct == InitAll /\ [][NextConstruct]_vars

-----------------------------------------------------------------------------
(* Properties *)

ElementSize(index_type) ==
    CASE index_type = "GL_UNSIGNED_INT"   -> 4
      [] index_type = "GL_UNSIGNED_SHORT" -> 2
      [] index_type = "GL_UNSIGNED_BYTE"  -> 1

UnsignedIndexTypes == {"GL_UNSIGNED_INT", "GL_UNSIGNED_SHORT", "GL_UNSIGNED_BYTE"}

\* the byte size the caller supplied for vertex source i (1-based) and for the indices
SuppliedVertexBytes(i) == args.vertex_data[i].len * args.vertex_data[i].esize
SuppliedIndexBytes == args.index_data.len * args.index_data.esize

Interleaved == Len(args.vertex_descriptor.strides) = 1
AttribCount == Len(args.vertex_descriptor.attributes)

\* the bytes of an owned buffer now, and before the last operation
BytesOf(bo) == gl.store[bo.m_handle].bytes
BytesBefore(bo) == pre.gl.store[bo.m_handle].bytes

\* C1 as stated: whenever a Mesh exists, after construction and after every
\* later operation, indices_count * element_size(index_type) equals the index
\* buffer's byte size (index types of 1, 2 and 4 bytes).
C1_CountTimesSizeIsByteSize ==
    (pc = "constructed" /\ getIndexType(mesh) \in UnsignedIndexTypes)
        => getIndicesCount(mesh) * ElementSize(getIndexType(mesh))
               = getIndexBufferByteSize(mesh)

\* C1 amended: indices_count is the index buffer's byte size divided by the
\* element size, rounded down; the product equals the byte size exactly when
\* the byte size is a multiple of the element size, and is smaller by the
\* remainder otherwise. It holds after construction and after every operation.
C1_CountIsFloorOfByteSize ==
    (pc = "constructed" /\ getIndexType(mesh) \in UnsignedIndexTypes)
        => LET es == ElementSize(getIndexType(mesh))
               bytes == getIndexBufferByteSize(mesh)
               cnt == getIndicesCount(mesh)
           IN  /\ bytes = SuppliedIndexBytes
               /\ cnt * es <= bytes
               /\ bytes < (cnt + 1) * es
               /\ (cnt * es = bytes) <=> (bytes % es = 0)

C1_Witness ==
    /\ pc = "constructed"
    /\ ub = NoUB
    /\ lastOp.name = "bufferIndexSubData"
    /\ BytesOf(mesh.m_ibo) # BytesBefore(mesh.m_ibo)
    /\ getIndexType(mesh) = "GL_UNSIGNED_INT"
    /\ getIndexBufferByteSize(mesh) = 6
    /\ getIndicesCount(mesh) = 1

\* C2 as stated: after draw(n), n >= 1, the vertex-array binding is zero and
\* the array-buffer binding is zero, whatever was bound before.
C2_DrawClearsBothBindings ==
    (lastOp.name = "draw" /\ lastOp.idx >= 1)
        => gl.vao = 0 /\ gl.arrayBuffer = 0

\* C2 amended: after draw(n), n >= 1, the vertex-array binding is zero; the
\* array-buffer binding and every element-array binding are as they were
\* before the call.
C2_DrawClearsVertexArrayOnly ==
    (lastOp.name = "draw" /\ lastOp.idx >= 1)
        => /\ gl.vao = 0
           /\ gl.arrayBuffer = pre.gl.arrayBuffer
           /\ gl.ebo = pre.gl.ebo

C2_Witness ==
    /\ lastOp.name = "draw"
    /\ ub = NoUB
    /\ pre.gl.arrayBuffer # 0
    /\ gl.arrayBuffer = pre.gl.arrayBuffer
    /\ gl.vao = 0

IsQuad ==
    /\ Len(args.vertex_data) = 1
    /\ SuppliedVertexBytes(1) = 80
    /\ SuppliedIndexBytes = 24
    /\ args.index_type = "GL_UNSIGNED_INT"
    /\ args.vertex_descriptor = Layout(2, TRUE)

\* C3 as stated: with one stride and one vertex buffer, construction with any
\* number of attributes reads no position of vbos past its end, completes,
\* sources every attribute from vbos[0], and the interleaved quad yields
\* getIndicesCount 6, getIndexBufferByteSize 24, getVertexBufferByteSize(0) 80.
C3_InterleavedReadsOnlyFirstVbo ==
    (pc # "start" /\ Interleaved /\ Len(args.vertex_data) = 1)
        => /\ ub = NoUB
           /\ pc = "constructed"
           /\ \A i \in 0..(AttribCount - 1) :
                 gl.slots[mesh.m_va_handle][i].buffer = mesh.m_vbos[1].m_handle
           /\ IsQuad => /\ getIndicesCount(mesh) = 6
                        /\ getIndexBufferByteSize(mesh) = 24
                        /\ getVertexBufferByteSize(mesh, 0) = 80

\* the same arguments as raw bytes: every source a pointer to len * esize bytes
AsBytes(a) ==
    [a EXCEPT !.vertex_data = [i \in 1..Len(a.vertex_data) |->
                                  Src(a.vertex_data[i].len * a.vertex_data[i].esize, 1)],
              !.index_data = Src(a.index_data.len * a.index_data.esize, 1)]

IsBindingCall(c) == c.fn \in {"glBindVertexArray", "glBindBuffer"}

BindingCalls(calls) == SelectSeq(calls, IsBindingCall)

\* C4 as stated: on the same bytes, layout, index type, usage and primitive
\* type the two construction forms issue the same binding calls and leave the
\* same Mesh fields and the same vertex-array, array-buffer and element-array
\* bindings.
C4_FormsAgree ==
    pc # "start" =>
        LET ra == RunA(AsBytes(args), gl0, boStyle, ub)
            rb == RunB(AsBytes(args), gl0, boStyle, ub)
        IN  /\ BindingCalls(ra.gl.calls) = BindingCalls(rb.gl.calls)
            /\ ra.mesh = rb.mesh
            /\ ra.gl.vao = rb.gl.vao
            /\ ra.gl.arrayBuffer = rb.gl.arrayBuffer
            /\ ElementArrayBinding(ra.gl) = ElementArrayBinding(rb.gl)

IsVertexSubData == lastOp.name \in {"bufferVertexSubData", "bufferVertexSubDataC"}

\* C5: bufferVertexSubData (either overload) with an index at or past the end of
\* vbos changes nothing: every buffer's bytes and size, the Mesh's fields and
\* the context's bindings and error flag are as before the call.
C5_OutOfRangeIsNoOp ==
    (IsVertexSubData /\ lastOp.idx >= Len(mesh.m_vbos))
        => /\ Quiet(gl) = pre.gl
           /\ mesh = pre.mesh

C5_Witness ==
    /\ lastOp.name = "bufferVertexSubData"
    /\ ub = NoUB
    /\ lastOp.idx >= Len(mesh.m_vbos)
    /\ pre.gl.arrayBuffer # 0
    /\ gl.arrayBuffer = pre.gl.arrayBuffer

\* C6: after bufferVertexSubData(i, data, size, offset) with i < vbos.length and
\* offset + size <= byte size of VBO i, bytes [offset, offset + size) of VBO i
\* are the input, and every other byte of VBO i, every other VBO and the IBO
\* are as before.
C6_SubDataWritesExactlyTheRange ==
    (lastOp.name = "bufferVertexSubData"
        /\ lastOp.idx < Len(mesh.m_vbos)
        /\ lastOp.offset + lastOp.size <= getVertexBufferByteSize(mesh, lastOp.idx))
        => LET bo == mesh.m_vbos[lastOp.idx + 1]
           IN  /\ Len(BytesOf(bo)) = Len(BytesBefore(bo))
               /\ \A k \in 1..Len(BytesOf(bo)) :
                     BytesOf(bo)[k] =
                        IF k > lastOp.offset /\ k <= lastOp.offset + lastOp.size
                        THEN Payload(lastOp.size)[k - lastOp.offset]
                        ELSE BytesBefore(bo)[k]
               /\ \A h \in BufNames \ {bo.m_handle} : gl.store[h] = pre.gl.store[h]

C6_Witness ==
    /\ lastOp = Op("bufferVertexSubData", 1, 20, 20, 0)
    /\ ub = NoUB
    /\ Len(mesh.m_vbos) = 2
    /\ getVertexBufferByteSize(mesh, 1) = 80
    /\ SubSeq(BytesOf(mesh.m_vbos[2]), 21, 40) = Payload(20)
    /\ SubSeq(BytesOf(mesh.m_vbos[2]), 1, 20) = SubSeq(BytesBefore(mesh.m_vbos[2]), 1, 20)
    /\ SubSeq(BytesBefore(mesh.m_vbos[2]), 1, 4) # Bytes(4, VTag(2))

\* C7: getVertexBufferByteSize(i) is the byte size supplied for vertex buffer i
\* at construction (the given size, or container length * element size) for
\* i < vbos.length and 0 for i >= vbos.length, after construction and after
\* every operation.
C7_VertexBufferByteSize ==
    pc = "constructed" =>
        /\ Len(mesh.m_vbos) = Len(args.vertex_data)
        /\ \A i \in 0..(MaxVbos + 1) :
              getVertexBufferByteSize(mesh, i) =
                 IF i < Len(args.vertex_data) THEN SuppliedVertexBytes(i + 1) ELSE 0
        /\ lastOp.name = "getVertexBufferByteSize" =>
              lastOp.result = IF lastOp.idx < Len(args.vertex_data)
                              THEN SuppliedVertexBytes(lastOp.idx + 1) ELSE 0

C7_Witness ==
    /\ pc = "constructed"
    /\ ub = NoUB
    /\ args.form = "B"
    /\ lastOp.name = "getVertexBufferByteSize"
    /\ lastOp.idx = 1
    /\ lastOp.result = 80
    /\ getVertexBufferByteSize(mesh, 0) = 4
    /\ BytesOf(mesh.m_vbos[2]) # Bytes(80, VTag(2))

\* C8: after construction and any sequence of operations the accessors return what the
\* constructor was given or computed, and the vertex-array handle, the number
\* of VBOs and every buffer's byte size are what construction left.
C8_StructureIsFixed ==
    pc = "constructed"
        => /\ lastOp.name # "Mesh" => mesh = pre.mesh
           /\ getVertexLayout(mesh) = args.vertex_descriptor
           /\ getIndexType(mesh) = args.index_type
           /\ getPrimitiveType(mesh) = args.primitive_type
           /\ getIndexBufferByteSize(mesh) = SuppliedIndexBytes
           /\ Len(BytesOf(mesh.m_ibo)) = SuppliedIndexBytes
           /\ \A i \in 1..Len(mesh.m_vbos) : Len(BytesOf(mesh.m_vbos[i])) = SuppliedVertexBytes(i)
           /\ mesh.m_va_handle \in gl.vaos \ ForeignVaos
           /\ getIndicesCount(mesh) = SuppliedIndexBytes \div ElementSize(args.index_type)
           /\ lastOp.name = "getIndicesCount" => lastOp.result = getIndicesCount(mesh)

C8_Witness ==
    /\ pc = "constructed"
    /\ ub = NoUB
    /\ nops >= 2
    /\ lastOp.name = "bufferIndexSubData"
    /\ BytesOf(mesh.m_ibo) # BytesBefore(mesh.m_ibo)
    /\ BytesBefore(mesh.m_ibo) # Bytes(SuppliedIndexBytes, ITag)
    /\ args.primitive_type = "GL_LINES"

\* the calls construction is said to make from the vertex-array's creation on
ExpectedWiring ==
    LET n == AttribCount
        va == mesh.m_va_handle
    IN  [k \in 1..(3 * n + 5) |->
            IF k = 1 THEN Call("glGenVertexArrays", "", va)
            ELSE IF k = 2 THEN Call("glBindVertexArray", "", va)
            ELSE IF k = 3 THEN Call("glBindBuffer", "GL_ELEMENT_ARRAY_BUFFER", mesh.m_ibo.m_handle)
            ELSE IF k = 3 * n + 4 THEN Call("glBindVertexArray", "", 0)
            ELSE IF k = 3 * n + 5 THEN Call("glBindBuffer", "GL_ARRAY_BUFFER", 0)
            ELSE LET i == (k - 4) \div 3
                 IN  CASE (k - 4) % 3 = 0 ->
                            Call("glBindBuffer", "GL_ARRAY_BUFFER", mesh.m_vbos[i + 1].m_handle)
                       [] (k - 4) % 3 = 1 -> Call("glEnableVertexAttribArray", "", i)
                       [] (k - 4) % 3 = 2 -> Call("glVertexAttribPointer", "", i)]

IsUpload(c) == c.fn = "glBufferData"
IsGen(c) == c.fn = "glGenVertexArrays"

\* the uploads construction is said to make: the IBO, then the VBOs in input order
ExpectedUploads ==
    <<Call("glBufferData", "GL_ELEMENT_ARRAY_BUFFER", mesh.m_ibo.m_handle)>>
    \o [i \in 1..Len(mesh.m_vbos) |->
           Call("glBufferData", "GL_ARRAY_BUFFER", mesh.m_vbos[i].m_handle)]

ConstructionInOrder ==
    LET calls == gl.calls
        gen == CHOOSE k \in 1..Len(calls) : IsGen(calls[k])
    IN  /\ AttribCount <= Len(mesh.m_vbos)
        /\ SelectSeq(calls, IsUpload) = ExpectedUploads
        /\ \A k \in 1..Len(calls) : IsUpload(calls[k]) => k < gen
        /\ Len(calls) >= gen + 3 * AttribCount + 4
        /\ SubSeq(calls, gen, gen + 3 * AttribCount + 4) = ExpectedWiring

JustConstructed == pc = "constructed" /\ lastOp.name = "Mesh"

\* C9 as stated: both forms create the IBO, then the VBOs in input order,
\* generate and bind the vertex-array, bind the IBO, then for each attribute i
\* bind vbos[i] before enabling and describing slot i, then unbind; when
\* construction completes the vertex-array and array-buffer bindings are zero and
\* the Mesh's vertex-array holds the Mesh's IBO as its element-array binding.
C9_OrderAndCapturedIbo ==
    JustConstructed
        => /\ ConstructionInOrder
           /\ gl.vao = 0
           /\ gl.arrayBuffer = 0
           /\ gl.ebo[mesh.m_va_handle] = mesh.m_ibo.m_handle

\* the error flag as it stands when construction reaches its check: the stale
\* error, else the first one construction raised
FlagAtCheck ==
    IF gl0.err # "GL_NO_ERROR" THEN gl0.err
    ELSE IF args.usage \notin ValidUsages THEN "GL_INVALID_ENUM"
    ELSE IF ub.kind = "bind" /\ ub.target \notin {"GL_ARRAY_BUFFER", "GL_ELEMENT_ARRAY_BUFFER"}
    THEN "GL_INVALID_ENUM"
    ELSE "GL_NO_ERROR"

\* the fields of a Mesh that construction settles
Fields(m) ==
    [handle |-> m.m_va_handle,
     vbos |-> [i \in 1..Len(m.m_vbos) |-> <<m.m_vbos[i].m_handle, m.m_vbos[i].m_byte_size>>],
     ibo |-> <<m.m_ibo.m_handle, m.m_ibo.m_byte_size>>,
     layout |-> m.m_vertex_descriptor,
     indices_count |-> m.m_indices_cnt,
     index_type |-> m.m_index_type,
     primitive_type |-> m.m_primitive_type]

\* the same construction with no error pending and none raised
ErrorFreeRun ==
    LET a == [args EXCEPT !.usage = "GL_STATIC_DRAW"]
        g == [gl0 EXCEPT !.err = "GL_NO_ERROR"]
        u == IF ub.kind = "bind" THEN [ub EXCEPT !.target = "GL_ARRAY_BUFFER"] ELSE ub
    IN  IF args.form = "A" THEN RunA(a, g, boStyle, u) ELSE RunB(a, g, boStyle, u)

IsPoll(c) == c.fn = "glGetError"

\* C10: construction reads the error flag once, as its last call; it writes
\* the line "Error - Mesh - Construction: <code>" exactly when the flag is set,
\* by a stale error or by one raised during construction; the flag never ends
\* construction early, and the Mesh's fields are those of the error-free run.
C10_ErrorPolledOnceAtEnd ==
    /\ pc = "crashed" => ub.kind = "crash"
    /\ JustConstructed
        => /\ Len(SelectSeq(gl.calls, IsPoll)) = 1
           /\ IsPoll(gl.calls[Len(gl.calls)])
           /\ cerr = IF FlagAtCheck # "GL_NO_ERROR"
                     THEN <<[text |-> "Error - Mesh - Construction: ", code |-> FlagAtCheck]>>
                     ELSE <<>>
           /\ ErrorFreeRun.cerr = <<>>
           /\ Fields(mesh) = Fields(ErrorFreeRun.mesh)

C10_Witness ==
    /\ JustConstructed
    /\ gl0.err = "GL_NO_ERROR"
    /\ ub = NoUB
    /\ Len(cerr) = 1
    /\ cerr[1].code = "GL_INVALID_ENUM"

====
